---- MODULE Spec2Model ----
(***************************************************************************)
(* Indoor air quality backend (src/backend/main.py): the PM2.5 sub-index   *)
(* classifier, the readings and events tables, and the handlers that read  *)
(* and write them (ingest, seed, reset, ack, events, readings, exposure),  *)
(* and the dashboard's Reset button (src/app/streamlit_app.py).            *)
(*                                                                         *)
(* Numbers.  A concentration is a float in the code.  Here it is an        *)
(* integer count of 1/Scale ug/m3, and the index is computed in exact      *)
(* rational arithmetic.  For Scale = 2 every input is a binary fraction    *)
(* and the exact result equals the one of CPython's float arithmetic on    *)
(* the whole grid 0 .. 450 (compared value by value against the code).     *)
(* A timestamp is the UTC instant in seconds; the ISO-8601 text the code   *)
(* stores is an injective, order-preserving rendering of that instant.     *)
(* An Optional value is None (the empty tuple) or Some(x) (a 1-tuple).     *)
(***************************************************************************)
EXTENDS Integers, Sequences, FiniteSets, TLC

VARIABLES readings, events, seq, ret

vars == <<readings, events, seq, ret>>

db == <<readings, events, seq>>

\* ------------------------------------------------------------------ bounds

\* Grid resolution: concentrations are multiples of 1/Scale.
Scale == 2

\* Largest concentration, in ug/m3, handed to the classifier.
MaxConc == 400

\* Largest id the events table's AUTOINCREMENT counter hands out.
MaxEvents == 2

\* ------------------------------------------------------------ optional values

None == <<>>

Some(x) == <<x>>

\* ------------------------------------------------------------------ classifier

PM25_BP ==
  << <<0, 30, 0, 50, "Good", "#009865">>,
     <<31, 60, 51, 100, "Satisfactory", "#98CE00">>,
     <<61, 90, 101, 200, "Moderately Polluted", "#FFFF00">>,
     <<91, 120, 201, 300, "Poor", "#FF7E00">>,
     <<121, 250, 301, 400, "Very Poor", "#FF0000">>,
     <<251, 350, 401, 500, "Severe", "#7E0023">> >>

\* Python's round(): num/den to the nearest integer, ties to the even one.
round(num, den) ==
  LET q == num \div den
      r == num % den
  IN  IF 2 * r < den THEN q
      ELSE IF 2 * r > den THEN q + 1
      ELSE IF q % 2 = 0 THEN q ELSE q + 1

\* Blo <= v <= Bhi for band b and v = x / Scale.
InBand(b, x) == b[1] * Scale <= x /\ x <= b[2] * Scale

\* (Ihi - Ilo) / (Bhi - Blo) * (v - Blo) + anchor, as a fraction <<num, den>>.
Line(b, x, anchor) ==
  << (b[4] - b[3]) * (x - b[1] * Scale) + anchor * (b[2] - b[1]) * Scale,
     (b[2] - b[1]) * Scale >>

\* Mutant: no band matches -> no result, instead of the extrapolation.
sub_index_pm25_noband(v) ==
  IF v = None THEN <<None, None>>
  ELSE
    LET x == v[1]
        hits == {i \in 1..Len(PM25_BP) : InBand(PM25_BP[i], x)}
    IN  IF hits # {}
        THEN LET b == PM25_BP[CHOOSE i \in hits : \A j \in hits : i <= j]
                 I == Line(b, x, b[3])
             IN  <<Some(round(I[1], I[2])), Some(b[5])>>
        ELSE <<None, None>>

\* Mutant: the band test excludes the upper bound (Blo <= v < Bhi).
sub_index_pm25_halfopen(v) ==
  IF v = None THEN <<None, None>>
  ELSE
    LET x == v[1]
        hits == {i \in 1..Len(PM25_BP) :
                   PM25_BP[i][1] * Scale <= x /\ x < PM25_BP[i][2] * Scale}
        last == PM25_BP[Len(PM25_BP)]
    IN  IF hits # {}
        THEN LET b == PM25_BP[CHOOSE i \in hits : \A j \in hits : i <= j]
                 I == Line(b, x, b[3])
             IN  <<Some(round(I[1], I[2])), Some(b[5])>>
        ELSE LET I == Line(last, x, last[4])
             IN  IF I[1] >= last[4] * I[2]
                 THEN <<Some(round(I[1], I[2])), Some(last[5])>>
                 ELSE <<Some(last[4]), Some(last[5])>>

\* Mutant: int(I) in place of int(round(I)).
sub_index_pm25_trunc(v) ==
  IF v = None THEN <<None, None>>
  ELSE
    LET x == v[1]
        hits == {i \in 1..Len(PM25_BP) : InBand(PM25_BP[i], x)}
        last == PM25_BP[Len(PM25_BP)]
    IN  IF hits # {}
        THEN LET b == PM25_BP[CHOOSE i \in hits : \A j \in hits : i <= j]
                 I == Line(b, x, b[3])
             IN  <<Some(I[1] \div I[2]), Some(b[5])>>
        ELSE LET I == Line(last, x, last[4])
             IN  IF I[1] >= last[4] * I[2]
                 THEN <<Some(I[1] \div I[2]), Some(last[5])>>
                 ELSE <<Some(last[4]), Some(last[5])>>

\* sub_index_pm25(v): (index, category) of a concentration, (None, None) for None.
\* The first band whose closed range holds v interpolates; a value no band
\* holds is extrapolated on the last band's slope from Ihi and clamped to Ihi.
sub_index_pm25(v) ==
  IF v = None THEN <<None, None>>
  ELSE
    LET x == v[1]
        hits == {i \in 1..Len(PM25_BP) : InBand(PM25_BP[i], x)}
        last == PM25_BP[Len(PM25_BP)]
    IN  IF hits # {}
        THEN LET b == PM25_BP[CHOOSE i \in hits : \A j \in hits : i <= j]
                 I == Line(b, x, b[3])
             IN  <<Some(round(I[1], I[2])), Some(b[5])>>
        ELSE LET I == Line(last, x, last[4])
             IN  IF I[1] >= last[4] * I[2]
                 THEN <<Some(round(I[1], I[2])), Some(last[5])>>
                 ELSE <<Some(last[4]), Some(last[5])>>

\* ------------------------------------------------------------------ state

\* The database after the CREATE TABLE IF NOT EXISTS statements on a new file;
\* no handler has answered yet.
Init ==
  /\ readings = {}
  /\ events = {}
  /\ seq = 0
  /\ ret = [op |-> "none"]

\* An ad-hoc call of the classifier: it returns a value and touches no table.
Classify(v) ==
  /\ ret' = [op |-> "sub_index_pm25", arg |-> v, out |-> sub_index_pm25(v)]
  /\ UNCHANGED db

\* Every concentration of the grid, and no concentration.
ConcInputs == {None} \cup {Some(x) : x \in 0..(MaxConc * Scale)}

NextClassify == \E v \in ConcInputs : Classify(v)

\* The classifier alone, called on every input of the grid.
SpecClassify == Init /\ [][NextClassify]_vars

\* ------------------------------------------------------------------ inputs

\* The UTC instants, in seconds, of the readings that requests send: half a
\* minute and half an hour apart.
Times == {30, 1830}

\* A request's datetime: wall-clock seconds and the zone's offset from UTC
\* (one sender in +05:30, one in UTC).
TsInputs == {[wall |-> 19830, utcoffset |-> 19800], [wall |-> 1830, utcoffset |-> 0]}

\* The site of a query or a reset: absent, the default site, another site.
SiteInputs == {None, Some("Lab"), Some("Office")}

\* The site of an ingest request: absent (stored as "Lab"), or another site.
IngestSites == {None, Some("Office")}

\* The measurements and source tag of an ingest request.
Payloads ==
  { [pm25 |-> None, co2 |-> Some(800), temp |-> None, rh |-> None, source |-> None],
    [pm25 |-> Some(10 * Scale), co2 |-> Some(600), temp |-> Some(24), rh |-> Some(45),
     source |-> Some("sim")],
    [pm25 |-> Some(100 * Scale), co2 |-> None, temp |-> Some(24), rh |-> Some(45),
     source |-> None],
    [pm25 |-> Some(130 * Scale), co2 |-> Some(1200), temp |-> Some(30), rh |-> None,
     source |-> Some("sim")] }

\* ReadingIn: the body of an ingest request.
ReadingIn(ts, p, site) ==
  [ts |-> ts, pm25 |-> p.pm25, co2 |-> p.co2, temp |-> p.temp, rh |-> p.rh,
   site |-> site, source |-> p.source]

IngestInputs ==
  {ReadingIn(ts, p, site) : ts \in TsInputs, p \in Payloads, site \in IngestSites}

\* What seed's random draws come to after clamping: pm25 in [5, 350], co2 in
\* [400, 2000], temp in [18, 35], rh in [20, 80].
SeedDraws ==
  { [pm25 |-> Some(130 * Scale), co2 |-> Some(2000), temp |-> Some(35), rh |-> Some(80)] }

\* SeedIn bodies and the wall clock at which seed runs.
SeedInputs ==
  {[now |-> 3630, hours |-> hp[1], site |-> s, period_seconds |-> hp[2]] :
     hp \in {<<1, 1800>>, <<1, 3600>>}, s \in {"Lab"}}

\* The windows asked for, and pd.Timedelta's reading of them in seconds.
Windows == {"30min", "1h"}

Timedelta(window) == CASE window = "30min" -> 1800 [] window = "1h" -> 3600

\* ------------------------------------------------------------------ ingest

\* r.ts.astimezone(timezone.utc).isoformat(): the UTC instant of a datetime.
utc_isoformat(ts) == ts.wall - ts.utcoffset

\* r.site or "Lab"
site_or_lab(site) == IF site = None \/ site = Some("") THEN "Lab" ELSE site[1]

\* f"{x:.1f}": x to one decimal, as a count of tenths.
fmt1(x) == round(x * 10, Scale)

\* INSERT OR REPLACE INTO readings: ts is the primary key.
insert_or_replace(table, row) == {x \in table : x.ts # row.ts} \cup {row}

\* Mutant: the new row is added and the old one with its timestamp is kept.
insert_reading_keep(d, r) ==
  LET ts == utc_isoformat(r.ts)
      ic == IF r.pm25 # None THEN sub_index_pm25(r.pm25) ELSE <<None, None>>
      row == [ts |-> ts, pm25 |-> r.pm25, co2 |-> r.co2, temp |-> r.temp, rh |-> r.rh,
              pm25_index |-> ic[1], pm25_category |-> ic[2],
              site |-> site_or_lab(r.site), source |-> r.source]
      alert == ic[2] \in {Some("Poor"), Some("Very Poor"), Some("Severe")}
  IN  [readings |-> d.readings \cup {row},
       events |-> IF alert
                  THEN d.events \cup
                         {[id |-> d.seq + 1, ts |-> ts, site |-> site_or_lab(r.site),
                           type |-> "pm25_alert",
                           severity |-> IF ic[2] = Some("Poor") THEN "warning" ELSE "critical",
                           message |-> <<"PM2.5 is", ic[2][1], fmt1(r.pm25[1])>>,
                           acknowledged |-> 0]}
                  ELSE d.events,
       seq |-> IF alert THEN d.seq + 1 ELSE d.seq,
       out |-> <<ts, ic[1], ic[2]>>]

\* Mutant: the alert is logged from Very Poor on, not from Poor on.
insert_reading_late(d, r) ==
  LET ts == utc_isoformat(r.ts)
      ic == IF r.pm25 # None THEN sub_index_pm25(r.pm25) ELSE <<None, None>>
      row == [ts |-> ts, pm25 |-> r.pm25, co2 |-> r.co2, temp |-> r.temp, rh |-> r.rh,
              pm25_index |-> ic[1], pm25_category |-> ic[2],
              site |-> site_or_lab(r.site), source |-> r.source]
      alert == ic[2] \in {Some("Very Poor"), Some("Severe")}
  IN  [readings |-> insert_or_replace(d.readings, row),
       events |-> IF alert
                  THEN d.events \cup
                         {[id |-> d.seq + 1, ts |-> ts, site |-> site_or_lab(r.site),
                           type |-> "pm25_alert",
                           severity |-> IF ic[2] = Some("Poor") THEN "warning" ELSE "critical",
                           message |-> <<"PM2.5 is", ic[2][1], fmt1(r.pm25[1])>>,
                           acknowledged |-> 0]}
                  ELSE d.events,
       seq |-> IF alert THEN d.seq + 1 ELSE d.seq,
       out |-> <<ts, ic[1], ic[2]>>]

\* insert_reading(r) on the database d = [readings, events, seq]: the database
\* after it, and the (ts, idx, cat) it returns.
insert_reading(d, r) ==
  LET ts == utc_isoformat(r.ts)
      ic == IF r.pm25 # None THEN sub_index_pm25(r.pm25) ELSE <<None, None>>
      row == [ts |-> ts, pm25 |-> r.pm25, co2 |-> r.co2, temp |-> r.temp, rh |-> r.rh,
              pm25_index |-> ic[1], pm25_category |-> ic[2],
              site |-> site_or_lab(r.site), source |-> r.source]
      alert == ic[2] \in {Some("Poor"), Some("Very Poor"), Some("Severe")}
  IN  [readings |-> insert_or_replace(d.readings, row),
       events |-> IF alert
                  THEN d.events \cup
                         {[id |-> d.seq + 1, ts |-> ts, site |-> site_or_lab(r.site),
                           type |-> "pm25_alert",
                           severity |-> IF ic[2] = Some("Poor") THEN "warning" ELSE "critical",
                           message |-> <<"PM2.5 is", ic[2][1], fmt1(r.pm25[1])>>,
                           acknowledged |-> 0]}
                  ELSE d.events,
       seq |-> IF alert THEN d.seq + 1 ELSE d.seq,
       out |-> <<ts, ic[1], ic[2]>>]

\* The database as a record.
Db == [readings |-> readings, events |-> events, seq |-> seq]

\* POST /ingest
ingest(r) ==
  LET d == insert_reading(Db, r)
  IN  /\ d.seq <= MaxEvents
      /\ readings' = d.readings
      /\ events' = d.events
      /\ seq' = d.seq
      /\ ret' = [op |-> "ingest", inserted |-> d.out[1], pm25_index |-> d.out[2],
                 pm25_category |-> d.out[3]]

\* ------------------------------------------------------------------ seed

\* int(hours * 3600 / period_seconds)
seed_n(s) == (s.hours * 3600) \div s.period_seconds

\* The timestamp of seed's i-th reading, i in range(n).
seed_ts(s, i) == s.now - (seed_n(s) - i) * s.period_seconds

RECURSIVE seed_loop(_, _, _, _)
\* The loop of seed from its i-th round on; draw[i] is the i-th round's draws.
seed_loop(d, s, draw, i) ==
  IF i >= seed_n(s) THEN d
  ELSE
    LET r == [ts |-> [wall |-> seed_ts(s, i), utcoffset |-> 0],
              pm25 |-> draw[i].pm25, co2 |-> draw[i].co2, temp |-> draw[i].temp,
              rh |-> draw[i].rh, site |-> Some(s.site), source |-> Some("seed")]
        e == insert_reading(d, r)
    IN  seed_loop([readings |-> e.readings, events |-> e.events, seq |-> e.seq],
                  s, draw, i + 1)

\* POST /seed
seed(s) ==
  /\ \A i \in 0..(seed_n(s) - 1) : seed_ts(s, i) \in Times
  /\ \E draw \in [0..(seed_n(s) - 1) -> SeedDraws] :
       LET d == seed_loop(Db, s, draw, 0)
       IN  /\ d.seq <= MaxEvents
           /\ readings' = d.readings
           /\ events' = d.events
           /\ seq' = d.seq
  /\ ret' = [op |-> "seed", seeded |-> seed_n(s), site |-> s.site,
             period_seconds |-> s.period_seconds]

\* ------------------------------------------------------------------ events

\* Mutant: the UPDATE has no WHERE clause.
ack_event_all(event_id) ==
  /\ events' = {[e EXCEPT !.acknowledged = 1] : e \in events}
  /\ ret' = [op |-> "ack", acknowledged |-> event_id]
  /\ UNCHANGED <<readings, seq>>

\* POST /events/ack (an UPDATE by id: an id no event has changes nothing).
ack_event(event_id) ==
  /\ events' = {IF e.id = event_id THEN [e EXCEPT !.acknowledged = 1] ELSE e : e \in events}
  /\ ret' = [op |-> "ack", acknowledged |-> event_id]
  /\ UNCHANGED <<readings, seq>>

RECURSIVE order_by_desc(_)
\* ORDER BY ts DESC, id DESC
order_by_desc(rows) ==
  IF rows = {} THEN <<>>
  ELSE LET first == CHOOSE e \in rows :
                      \A o \in rows : o.ts < e.ts \/ (o.ts = e.ts /\ o.id <= e.id)
       IN  <<first>> \o order_by_desc(rows \ {first})

\* The body of GET /events: the list it answers with.
get_events_out(limit, site) ==
  LET rows == {e \in events : (site # None /\ site # Some("")) => e.site = site[1]}
      sorted == order_by_desc(rows)
  IN  SubSeq(sorted, 1, IF limit < Len(sorted) THEN limit ELSE Len(sorted))

\* GET /events
get_events(limit, site) ==
  /\ ret' = [op |-> "get_events", limit |-> limit, site |-> site,
             out |-> get_events_out(limit, site)]
  /\ UNCHANGED db

\* Mutant: the events of the site are kept.
reset_keep_events(site) ==
  /\ IF site # None /\ site # Some("")
     THEN /\ readings' = {x \in readings : x.site # site[1]}
          /\ events' = events
     ELSE /\ readings' = {}
          /\ events' = {}
  /\ ret' = [op |-> "reset", ok |-> TRUE]
  /\ UNCHANGED seq

\* POST /reset; AUTOINCREMENT keeps its counter when rows are deleted.
reset(site) ==
  /\ IF site # None /\ site # Some("")
     THEN /\ readings' = {x \in readings : x.site # site[1]}
          /\ events' = {e \in events : e.site # site[1]}
     ELSE /\ readings' = {}
          /\ events' = {}
  /\ ret' = [op |-> "reset", ok |-> TRUE]
  /\ UNCHANGED seq

\* ------------------------------------------------------------------ dashboard

\* The sites the dashboard's selectbox offers.
DashSites == {"Lab", "Office"}

\* api_post(path, json): the request it sends has a JSON body and no query
\* string.
api_post(path, json) == [path |-> path, query |-> None, json |-> Some(json)]

\* FastAPI's binding of reset's parameter `site: Optional[str] = None`: a
\* parameter of a scalar type is read from the query string, and takes its
\* default when the query string has none; the body is not looked at.
reset_site(request) ==
  IF request.query = None THEN None ELSE Some(request.query[1].site)

\* The Reset button with `site` selected: the request, the backend's reset
\* of it, and the message shown.
reset_clicked(site) ==
  LET request == api_post("/reset", [site |-> site])
      param == reset_site(request)
  IN  /\ IF param # None /\ param # Some("")
         THEN /\ readings' = {x \in readings : x.site # param[1]}
              /\ events' = {e \in events : e.site # param[1]}
         ELSE /\ readings' = {}
              /\ events' = {}
      /\ ret' = [op |-> "reset_clicked", message |-> <<"Cleared", site>>]
      /\ UNCHANGED seq

\* ------------------------------------------------------------------ exposure

RECURSIVE sort_values(_)
\* df.sort_values("ts"): the rows <<ts, cat>> in ascending order of ts.
sort_values(df) ==
  IF df = {} THEN <<>>
  ELSE LET last == CHOOSE p \in df : \A q \in df : q[1] <= p[1]
       IN  Append(sort_values(df \ {last}), last)

RECURSIVE sum_dt_nofill(_, _, _)
\* Mutant: the earliest row is credited nothing (no fillna(60)).
sum_dt_nofill(sorted, cat, i) ==
  IF i = 0 THEN 0
  ELSE sum_dt_nofill(sorted, cat, i - 1)
         + (IF sorted[i][2] = Some(cat)
            THEN (IF i = 1 THEN 0 ELSE sorted[i][1] - sorted[i - 1][1])
            ELSE 0)

RECURSIVE sum_dt_fromfirst(_, _, _)
\* Mutant: a row is credited the time since the earliest row, not since the
\* row before it.
sum_dt_fromfirst(sorted, cat, i) ==
  IF i = 0 THEN 0
  ELSE sum_dt_fromfirst(sorted, cat, i - 1)
         + (IF sorted[i][2] = Some(cat)
            THEN (IF i = 1 THEN 60 ELSE sorted[i][1] - sorted[1][1])
            ELSE 0)

RECURSIVE sum_dt_dropna(_, _, _)
\* Mutant: the rows without a category are dropped before the differences are
\* taken, so a row is credited the time since the last row with a category.
sum_dt_dropna(sorted, cat, i) ==
  IF i = 0 THEN 0
  ELSE sum_dt_dropna(sorted, cat, i - 1)
         + (IF sorted[i][2] = Some(cat)
            THEN LET kept == {j \in 1..(i - 1) : sorted[j][2] # None}
                 IN  IF kept = {} THEN 60
                     ELSE sorted[i][1]
                            - sorted[CHOOSE j \in kept : \A k \in kept : k <= j][1]
            ELSE 0)

RECURSIVE sum_dt_nonegood(_, _, _)
\* Mutant: a row without a category is counted as Good.
sum_dt_nonegood(sorted, cat, i) ==
  IF i = 0 THEN 0
  ELSE sum_dt_nonegood(sorted, cat, i - 1)
         + (IF sorted[i][2] = Some(cat) \/ (sorted[i][2] = None /\ cat = "Good")
            THEN (IF i = 1 THEN 60 ELSE sorted[i][1] - sorted[i - 1][1])
            ELSE 0)

RECURSIVE sum_dt(_, _, _)
\* groupby("cat")["dt"].sum() for one category, over the rows 1..i of sorted.
sum_dt(sorted, cat, i) ==
  IF i = 0 THEN 0
  ELSE sum_dt(sorted, cat, i - 1)
         + (IF sorted[i][2] = Some(cat)
            THEN (IF i = 1 THEN 60 ELSE sorted[i][1] - sorted[i - 1][1])
            ELSE 0)

\* ExposureOut
ExposureOut(window, f) ==
  [window |-> window, good |-> f["Good"], satisfactory |-> f["Satisfactory"],
   moderate |-> f["Moderately Polluted"], poor |-> f["Poor"],
   very_poor |-> f["Very Poor"], severe |-> f["Severe"]]

\* Mutant: the window is measured back from the latest of all stored readings.
exposure_out_anysite(window, site) ==
  LET rows == {<<x.ts, x.pm25_category>> :
                 x \in {y \in readings : (site # None /\ site # Some("")) => y.site = site[1]}}
      zero == [c \in {PM25_BP[i][5] : i \in 1..Len(PM25_BP)} |-> 0]
  IN  IF rows = {} THEN ExposureOut(window, zero)
      ELSE
        LET now == CHOOSE t \in {x.ts : x \in readings} : \A x \in readings : x.ts <= t
            delta == Timedelta(window)
            df == {p \in rows : p[1] >= now - delta}
            sorted == sort_values(df)
        IN  IF df = {} THEN ExposureOut(window, zero)
            ELSE ExposureOut(window,
                   [c \in {PM25_BP[i][5] : i \in 1..Len(PM25_BP)} |->
                      round(sum_dt(sorted, c, Len(sorted)), 60)])

\* Mutant: a reading exactly window old is dropped (ts > now - delta).
exposure_out_strict(window, site) ==
  LET rows == {<<x.ts, x.pm25_category>> :
                 x \in {y \in readings : (site # None /\ site # Some("")) => y.site = site[1]}}
      zero == [c \in {PM25_BP[i][5] : i \in 1..Len(PM25_BP)} |-> 0]
  IN  IF rows = {} THEN ExposureOut(window, zero)
      ELSE
        LET now == CHOOSE t \in {p[1] : p \in rows} : \A p \in rows : p[1] <= t
            delta == Timedelta(window)
            df == {p \in rows : p[1] > now - delta}
            sorted == sort_values(df)
        IN  IF df = {} THEN ExposureOut(window, zero)
            ELSE ExposureOut(window,
                   [c \in {PM25_BP[i][5] : i \in 1..Len(PM25_BP)} |->
                      round(sum_dt(sorted, c, Len(sorted)), 60)])

\* The body of GET /exposure: the totals it answers with.
exposure_out(window, site) ==
  LET rows == {<<x.ts, x.pm25_category>> :
                 x \in {y \in readings : (site # None /\ site # Some("")) => y.site = site[1]}}
      zero == [c \in {PM25_BP[i][5] : i \in 1..Len(PM25_BP)} |-> 0]
  IN  IF rows = {} THEN ExposureOut(window, zero)
      ELSE
        LET now == CHOOSE t \in {p[1] : p \in rows} : \A p \in rows : p[1] <= t
            delta == Timedelta(window)
            df == {p \in rows : p[1] >= now - delta}
            sorted == sort_values(df)
        IN  IF df = {} THEN ExposureOut(window, zero)
            ELSE ExposureOut(window,
                   [c \in {PM25_BP[i][5] : i \in 1..Len(PM25_BP)} |->
                      round(sum_dt(sorted, c, Len(sorted)), 60)])

\* Mutant: the query keeps in the table only the rows it retained.
exposure_prune(window, site) ==
  /\ ret' = [op |-> "exposure", window |-> window, site |-> site,
             out |-> exposure_out(window, site)]
  /\ readings' =
       {x \in readings :
          \A y \in readings :
            ((site # None /\ site # Some("")) => y.site = site[1])
              => x.ts >= y.ts - Timedelta(window)}
  /\ UNCHANGED <<events, seq>>

\* GET /exposure
exposure(window, site) ==
  /\ ret' = [op |-> "exposure", window |-> window, site |-> site,
             out |-> exposure_out(window, site)]
  /\ UNCHANGED db

\* ------------------------------------------------------------------ specification

\* The concentrations of the ad-hoc classifier calls made beside the handlers.
AdHocInputs == {Some(100 * Scale)}

Next ==
  \/ \E r \in IngestInputs : ingest(r)
  \/ \E s \in SeedInputs : seed(s)
  \/ \E site \in SiteInputs : reset(site)
  \/ \E site \in DashSites : reset_clicked(site)
  \/ \E v \in AdHocInputs : Classify(v)

\* The handlers that write the readings and events tables.
Spec == Init /\ [][Next]_vars

\* The ingest requests of the alert log's clients: a Poor reading or one
\* without pm25, at either instant, for either site.
AlertIngests == {r \in IngestInputs : r.pm25 \in {None, Some(100 * Scale)}}

\* The ids that acknowledgements name: every id the counter hands out, and one
\* it never does.
AckIds == 1..(MaxEvents + 1)

\* The limits of the event list queries: the newest event, and the dashboard's
\* page.
Limits == {1, 50}

NextEvents ==
  \/ \E r \in AlertIngests : ingest(r)
  \/ \E s \in SeedInputs : seed(s)
  \/ \E event_id \in AckIds : ack_event(event_id)
  \/ \E site \in SiteInputs : reset(site)
  \/ \E limit \in Limits, site \in SiteInputs : get_events(limit, site)

\* The alert log: the handlers that write, acknowledge, list and delete events.
SpecEvents == Init /\ [][NextEvents]_vars

\* The instants of a stored history: a reading, one half a minute later, and
\* two more, half an hour apart.
HistoryTimes == {0, 30, 1830, 3630}

\* What the reading of one instant of a history was ingested with.
HistoryInputs ==
  {[pm25 |-> p.pm25, co2 |-> p.co2, temp |-> p.temp, rh |-> p.rh, site |-> site,
    source |-> p.source] : p \in Payloads, site \in {Some("Lab"), Some("Office")}}

RECURSIVE load(_, _, _)
\* The database d after insert_reading of history h's readings at the instants
\* of times, oldest first.
load(d, h, times) ==
  IF times = {} THEN d
  ELSE
    LET t == CHOOSE x \in times : \A y \in times : x <= y
        e == IF h[t] = None THEN d
             ELSE insert_reading(d, [ts |-> [wall |-> t, utcoffset |-> 0],
                                     pm25 |-> h[t][1].pm25, co2 |-> h[t][1].co2,
                                     temp |-> h[t][1].temp, rh |-> h[t][1].rh,
                                     site |-> h[t][1].site, source |-> h[t][1].source])
    IN  load([readings |-> e.readings, events |-> e.events, seq |-> e.seq],
             h, times \ {t})

\* The instants of a history with one reading a minute: minutes 0, 1, ..., 9.
MinuteTimes == {60 * i : i \in 0..9}

\* The histories with one reading a minute, all of one payload and one site.
MinuteHistories ==
  {[t \in MinuteTimes |-> Some(x)] : x \in HistoryInputs}

\* A database that ingest requests have filled: each instant of the history
\* holds no reading or one that insert_reading stored, or the history has one
\* reading a minute.
InitHistory ==
  \/ \E h \in [HistoryTimes -> {None} \cup {Some(x) : x \in HistoryInputs}] :
       LET d == load([readings |-> {}, events |-> {}, seq |-> 0], h, HistoryTimes)
       IN  /\ readings = d.readings
           /\ events = d.events
           /\ seq = d.seq
           /\ ret = [op |-> "none"]
  \/ \E h \in MinuteHistories :
       LET d == load([readings |-> {}, events |-> {}, seq |-> 0], h, MinuteTimes)
       IN  /\ readings = d.readings
           /\ events = d.events
           /\ seq = d.seq
           /\ ret = [op |-> "none"]

NextQuery == \E w \in Windows, site \in SiteInputs : exposure(w, site)

\* The read-only queries, asked of every stored history.
SpecQuery == InitHistory /\ [][NextQuery]_vars

\* ------------------------------------------------------------------ readings

RECURSIVE order_by_ts_desc(_)
\* ORDER BY ts DESC
order_by_ts_desc(rows) ==
  IF rows = {} THEN <<>>
  ELSE LET first == CHOOSE x \in rows : \A y \in rows : y.ts <= x.ts
       IN  <<first>> \o order_by_ts_desc(rows \ {first})

\* lst[::-1]
reversed(lst) == [i \in 1..Len(lst) |-> lst[Len(lst) + 1 - i]]

\* The body of GET /readings: the list it answers with.  The window's start is
\* measured back from SELECT MAX(ts) FROM readings, the latest stored reading
\* of any site; no window condition is added when the table is empty.
readings_out(limit, site, window) ==
  LET by_site == {x \in readings : (site # None /\ site # Some("")) => x.site = site[1]}
      where == IF window # None /\ window # Some("") /\ readings # {}
               THEN LET max_ts == CHOOSE t \in {x.ts : x \in readings} :
                                    \A x \in readings : x.ts <= t
                        start == max_ts - Timedelta(window[1])
                    IN  {x \in by_site : x.ts >= start}
               ELSE by_site
      rows == order_by_ts_desc(where)
  IN  reversed(SubSeq(rows, 1, IF limit < Len(rows) THEN limit ELSE Len(rows)))

\* GET /readings
readings_handler(limit, site, window) ==
  /\ ret' = [op |-> "readings", limit |-> limit, site |-> site, window |-> window,
             out |-> readings_out(limit, site, window)]
  /\ UNCHANGED db

\* The limits of the readings queries: the newest reading, and the default.
ReadingLimits == {1, 500}

\* The window of a readings query: absent, or one of the windows.
ReadingWindows == {None} \cup {Some(w) : w \in Windows}

NextReadings ==
  \E limit \in ReadingLimits, site \in SiteInputs, window \in ReadingWindows :
    readings_handler(limit, site, window)

\* The readings query, asked of every stored history.
SpecReadings == InitHistory /\ [][NextReadings]_vars

\* ------------------------------------------------------------- classifier claims

\* The six category labels, in table order.
Labels == {PM25_BP[i][5] : i \in 1..Len(PM25_BP)}

\* Position of a label in the table: its severity.
Rank(c) == CHOOSE i \in 1..Len(PM25_BP) : PM25_BP[i][5] = c

\* The top band's upper bound (350), in grid units.
Top == PM25_BP[Len(PM25_BP)][2] * Scale

\* The last answer is the classifier's, for a concentration that is present.
Called == ret.op = "sub_index_pm25" /\ ret.arg # None

Arg == ret.arg[1]

Idx == ret.out[1][1]

Cat == ret.out[2][1]

\* The bands whose closed range holds the grid value x.
BandsOf(x) == {i \in 1..Len(PM25_BP) : InBand(PM25_BP[i], x)}

\* C1 (as claimed): for 0 <= v <= w <= 350 the index of v is at most the index
\* of w, and the category of v is no more severe than the category of w.
C1_Monotone ==
  (Called /\ Arg <= Top) =>
    \A x \in 0..Arg :
      LET o == sub_index_pm25(Some(x))
      IN  o[1][1] <= Idx /\ Rank(o[2][1]) <= Rank(Cat)

\* C2 (as claimed): every concentration of [0, 350] lies in the closed range of
\* exactly one band; the bands do not overlap and increase in table order.
C2_OneBand ==
  /\ \A i \in 1..Len(PM25_BP) : PM25_BP[i][1] <= PM25_BP[i][2]
  /\ \A i \in 1..(Len(PM25_BP) - 1) : PM25_BP[i][2] < PM25_BP[i + 1][1]
  /\ (Called /\ Arg <= Top) => Cardinality(BandsOf(Arg)) = 1

\* C3: for 0 <= v <= 350 the classifier returns an integer index in 0..500 and
\* one of the six labels.
C3_Range ==
  (Called /\ Arg <= Top) =>
    /\ ret.out[1] # None /\ Idx \in 0..500
    /\ ret.out[2] # None /\ Cat \in Labels

\* A concentration of [0, 350] that no band holds has been classified.
C3_Witness ==
  /\ Called /\ Arg <= Top /\ BandsOf(Arg) = {}
  /\ ret.out = <<Some(500), Some("Severe")>>

\* C4: at every pair of adjacent bands the upper bound of the lower band gets
\* the lower band's category and the lower bound of the next band the next
\* band's, and the two differ; 30 is Good and 31 is Satisfactory.
C4_Boundaries ==
  Called =>
    /\ \A i \in 1..(Len(PM25_BP) - 1) :
         /\ Arg = PM25_BP[i][2] * Scale => ret.out[2] = Some(PM25_BP[i][5])
         /\ Arg = PM25_BP[i + 1][1] * Scale => ret.out[2] = Some(PM25_BP[i + 1][5])
         /\ PM25_BP[i][5] # PM25_BP[i + 1][5]
    /\ Arg = 30 * Scale => ret.out[2] = Some("Good")
    /\ Arg = 31 * Scale => ret.out[2] = Some("Satisfactory")

\* 30, the upper bound of the first band, has been classified as Good.
C4_Witness == Called /\ Arg = 30 * Scale /\ ret.out = <<Some(50), Some("Good")>>

\* C5: above 350 the category is Severe and the index is at least 500.
C5_AboveTop ==
  (Called /\ Arg > Top) => ret.out[2] = Some("Severe") /\ ret.out[1] # None /\ Idx >= 500

\* 400 has been classified.
C5_Witness == Called /\ Arg = 400 * Scale /\ ret.out = <<Some(649), Some("Severe")>>

\* C6 (as claimed): above 350 the index lies on the line of slope 1 through
\* index 500 at 350 (351 gives 501), and is never below 500.
C6_Continuous ==
  (Called /\ Arg > Top) => Idx = round(500 * Scale + (Arg - Top), Scale) /\ Idx >= 500

\* C7: for an integer v inside a band, the index is the nearest integer to
\* (Ihi - Ilo) / (Bhi - Blo) * (v - Blo) + Ilo on the first band holding v, with
\* that band's category; it is Ilo at v = Blo and Ihi at v = Bhi.
C7_Interpolation ==
  (Called /\ Arg % Scale = 0 /\ BandsOf(Arg) # {}) =>
    LET i == CHOOSE k \in BandsOf(Arg) : \A j \in BandsOf(Arg) : k <= j
        b == PM25_BP[i]
        v == Arg \div Scale
        den == b[2] - b[1]
        num == (b[4] - b[3]) * (v - b[1]) + b[3] * den
        err == Idx * den - num
    IN  /\ ret.out[2] = Some(b[5])
        /\ 2 * err <= den /\ -2 * err <= den
        /\ v = b[1] => Idx = b[3]
        /\ v = b[2] => Idx = b[4]

\* 45 has been classified: 49/29 * 14 + 51 = 74.66, rounded to 75.
C7_Witness == Called /\ Arg = 45 * Scale /\ ret.out = <<Some(75), Some("Satisfactory")>>

\* ------------------------------------------------------------------ store claims

\* The categories that raise an alert.
AlertCats == {Some("Poor"), Some("Very Poor"), Some("Severe")}

\* The stored readings with timestamp t.
RowsAt(table, t) == {x \in table : x.ts = t}

\* A step of POST /ingest whose reading got category cat: exactly one event is
\* appended if cat is Poor or worse, with the reading's timestamp and site, and
\* none otherwise.
IngestAlert ==
  ret'.op = "ingest" =>
    IF ret'.pm25_category \in AlertCats
    THEN \E e \in events' :
           /\ e \notin events
           /\ events' = events \cup {e}
           /\ e.type = "pm25_alert"
           /\ e.ts = ret'.inserted
           /\ \A x \in RowsAt(readings', ret'.inserted) : e.site = x.site
           /\ e.severity = (IF ret'.pm25_category = Some("Poor")
                            THEN "warning" ELSE "critical")
    ELSE events' = events

\* A step that answers an ad-hoc classifier call leaves the events table alone.
AdHocSilent == ret'.op = "sub_index_pm25" => events' = events

\* C8: an ingest appends exactly one pm25_alert event, with the reading's
\* timestamp and site, iff the reading's category is Poor, Very Poor or Severe
\* (warning for Poor, critical otherwise), and no event for any other or an
\* absent category; a classifier call outside ingest never changes the events.
C8_AlertOnIngest == [][IngestAlert /\ AdHocSilent]_vars

\* A Poor reading has just been ingested and its warning is the newest event.
C8_Witness ==
  /\ ret.op = "ingest" /\ ret.pm25_category = Some("Poor")
  /\ \E e \in events : e.id = seq /\ e.ts = ret.inserted /\ e.severity = "warning"

\* No two stored readings have the same timestamp.
UniqueTs == \A a, b \in readings : a.ts = b.ts => a = b

\* A step of POST /ingest with body r: afterwards the one row with the returned
\* timestamp holds every field of r (an absent one absent), the site or "Lab",
\* and the returned index and category; every other row is as before.
ReplacesWhole(r) ==
  (ret'.op = "ingest" /\ ret'.inserted = r.ts.wall - r.ts.utcoffset /\ ingest(r)) =>
    /\ \E row \in RowsAt(readings', ret'.inserted) :
         /\ RowsAt(readings', ret'.inserted) = {row}
         /\ row.pm25 = r.pm25 /\ row.co2 = r.co2 /\ row.temp = r.temp /\ row.rh = r.rh
         /\ row.source = r.source
         /\ row.site = (IF r.site = None THEN "Lab" ELSE r.site[1])
         /\ row.pm25_index = ret'.pm25_index
         /\ row.pm25_category = ret'.pm25_category
    /\ \A x \in readings \cup readings' :
         x.ts # ret'.inserted => (x \in readings <=> x \in readings')

\* C9: after any sequence of ingest, seed and reset no two stored readings share
\* a timestamp, and an ingest with the timestamp of a stored reading replaces
\* the stored row as a whole by the later write.
C9_ReplaceNotMerge == [](UniqueTs) /\ [][\A r \in IngestInputs : ReplacesWhole(r)]_vars

\* A reading that had raised an alert has been replaced by one without pm25:
\* the alert of that timestamp is stored, the row has no concentration.
C9_Witness ==
  /\ ret.op = "ingest" /\ ret.pm25_category = None
  /\ \E e \in events : e.ts = ret.inserted
  /\ \E x \in readings : x.ts = ret.inserted /\ x.pm25 = None /\ x.pm25_category = None

\* ------------------------------------------------------------------ exposure claims

\* The stored readings that pass the site filter of the last exposure query.
Filtered ==
  {x \in readings : (ret.site # None /\ ret.site # Some("")) => x.site = ret.site[1]}

\* The latest timestamp of a non-empty set of readings.
Latest(S) == CHOOSE t \in {x.ts : x \in S} : \A x \in S : x.ts <= t

\* The filtered readings no older than the window, measured back from the
\* latest filtered reading.
Retained == {x \in Filtered : x.ts >= Latest(Filtered) - Timedelta(ret.window)}

\* The seconds credited to a reading of the set S: 60 to the earliest, and to any
\* other the time since the reading of S just before it.
Credit(S, x) ==
  LET before == {y \in S : y.ts < x.ts}
  IN  IF before = {} THEN 60 ELSE x.ts - Latest(before)

RECURSIVE CreditSum(_, _)
\* The seconds credited, within S, to the readings of its subset T.
CreditSum(S, T) ==
  IF T = {} THEN 0
  ELSE LET x == CHOOSE y \in T : TRUE
       IN  Credit(S, x) + CreditSum(S, T \ {x})

\* The six totals of an answer, by category.
TotalOf(out, c) ==
  CASE c = "Good" -> out.good
    [] c = "Satisfactory" -> out.satisfactory
    [] c = "Moderately Polluted" -> out.moderate
    [] c = "Poor" -> out.poor
    [] c = "Very Poor" -> out.very_poor
    [] c = "Severe" -> out.severe

\* C10: exposure measures the window back from the latest stored reading that
\* passes the site filter, and its totals are those of exactly the filtered
\* readings with timestamp >= now - window: each total is the minutes (to the
\* nearest integer) credited among these readings to the ones of its category.
C10_WindowFromLatest ==
  ret.op = "exposure" =>
    \A c \in Labels :
      LET secs == IF Filtered = {} THEN 0
                  ELSE CreditSum(Retained, {x \in Retained : x.pm25_category = Some(c)})
          err == 60 * TotalOf(ret.out, c) - secs
      IN  2 * err <= 60 /\ -2 * err <= 60

\* exposure("30min", "Lab") was asked of a history whose latest reading is of
\* another site: of the Lab readings the one exactly 30 minutes older than the
\* latest is counted and the one before it is not.
C10_Witness ==
  /\ ret.op = "exposure" /\ ret.site = Some("Lab") /\ ret.window = "30min"
  /\ Filtered # {}
  /\ \E x \in readings : x.site # "Lab" /\ x.ts > Latest(Filtered)
  /\ \E x \in Retained : x.ts = Latest(Filtered) - 1800 /\ x.pm25_category = Some("Poor")
  /\ \E x \in Filtered \ Retained : x.pm25_category = Some("Poor")
  /\ \E x \in Retained : x.ts = Latest(Filtered) /\ x.pm25_category = Some("Good")
  /\ ret.out.poor = 1 /\ ret.out.good = 30

\* The retained readings as exposure sorts them: ascending by timestamp.
RetainedSorted == sort_values({<<x.ts, x.pm25_category>> : x \in Retained})

\* The seconds exposure credits to the i-th retained reading.
Dt(i) == IF i = 1 THEN 60 ELSE RetainedSorted[i][1] - RetainedSorted[i - 1][1]

RECURSIVE SumOver(_, _)
\* The sum of f over the finite set I.
SumOver(f, I) ==
  IF I = {} THEN 0
  ELSE LET i == CHOOSE j \in I : TRUE
       IN  f[i] + SumOver(f, I \ {i})

\* The stored readings are the ten of minutes 0 .. 9 and all are Good.
TenGoodMinutes ==
  /\ {x.ts : x \in readings} = MinuteTimes
  /\ \A x \in readings : x.pm25_category = Some("Good")

\* C11: with the retained readings sorted ascending by timestamp, the earliest
\* is credited 60 seconds and every other the seconds since the retained
\* reading just before it, whatever that one's category; each total is the sum
\* of the seconds credited to its category's readings, over 60, rounded.  Ten
\* Good readings at minutes 0 .. 9 give good = 10 and every other total 0.
C11_CreditRule ==
  (ret.op = "exposure" /\ Filtered # {}) =>
    /\ \A c \in Labels :
         TotalOf(ret.out, c) =
           round(SumOver([i \in 1..Len(RetainedSorted) |-> Dt(i)],
                         {i \in 1..Len(RetainedSorted) : RetainedSorted[i][2] = Some(c)}),
                 60)
    /\ TenGoodMinutes =>
         \A c \in Labels : TotalOf(ret.out, c) = (IF c = "Good" THEN 10 ELSE 0)

\* exposure was asked of ten Good readings at minutes 0 .. 9 and answered
\* good = 10.
C11_Witness ==
  /\ ret.op = "exposure" /\ Filtered = readings /\ TenGoodMinutes
  /\ Len(RetainedSorted) = 10
  /\ ret.out.good = 10 /\ ret.out.poor = 0

\* The retained readings that carry category c.
Carrying(c) == {x \in Retained : x.pm25_category = Some(c)}

\* C12: a retained reading with no category adds no minutes to any total: each
\* total is made of the seconds credited to the retained readings that carry
\* its category and of nothing else, and is 0 when none carries it.
C12_AbsentAddsNothing ==
  (ret.op = "exposure" /\ Filtered # {}) =>
    /\ \A x \in Retained : x.pm25_category = None \/ x.pm25_category[1] \in Labels
    /\ \A c \in Labels :
         /\ TotalOf(ret.out, c) = round(CreditSum(Retained, Carrying(c)), 60)
         /\ Carrying(c) = {} => TotalOf(ret.out, c) = 0

\* A reading without category lies half an hour after a Good one and half an
\* hour before another: its 1800 seconds are in no total, good is 31.
C12_Witness ==
  /\ ret.op = "exposure" /\ Filtered # {}
  /\ \E x \in Retained : x.pm25_category = None /\ Credit(Retained, x) = 1800
  /\ Cardinality(Carrying("Good")) = 2
  /\ \A c \in Labels : TotalOf(ret.out, c) = (IF c = "Good" THEN 31 ELSE 0)

\* All six totals of an answer are 0.
AllZero(out) == \A c \in Labels : TotalOf(out, c) = 0

\* C13: missing input and empty data are results: the classifier maps None to
\* (None, None), a reading ingested without pm25 is stored with no index and no
\* category, and exposure answers six zeros when no reading is stored, when no
\* stored reading passes the site filter, and when every retained reading has
\* no category.
C13_MissingIsNoFault ==
  /\ sub_index_pm25(None) = <<None, None>>
  /\ \A x \in readings : x.pm25 = None => x.pm25_index = None /\ x.pm25_category = None
  /\ ret.op = "exposure" =>
       /\ ret.out.window = ret.window
       /\ (readings = {} \/ Filtered = {} \/ \A x \in Retained : x.pm25_category = None)
            => AllZero(ret.out)

\* exposure was asked for a site whose retained readings, two or more, were all
\* ingested without pm25, while a reading of another site has a category.
C13_Witness ==
  /\ ret.op = "exposure" /\ ret.site = Some("Office") /\ Filtered # {}
  /\ Cardinality(Retained) >= 2
  /\ \A x \in Retained : x.pm25 = None /\ x.pm25_category = None
  /\ \E x \in readings \ Filtered : x.pm25_category = Some("Poor")
  /\ AllZero(ret.out)

\* A step that answers an exposure query leaves both tables as they were, and
\* repeats the previous answer if that was to the same query.
ExposureReadOnly ==
  ret'.op = "exposure" =>
    /\ readings' = readings /\ events' = events /\ seq' = seq
    /\ (ret.op = "exposure" /\ ret.window = ret'.window /\ ret.site = ret'.site)
         => ret'.out = ret.out

\* Asking the last exposure query again, in the state its answer left, gets
\* the same totals.
SameAgain == ret.op = "exposure" => ret.out = exposure_out(ret.window, ret.site)

\* C14: exposure is a read-only, stateless query: a call leaves the readings
\* and events tables unchanged, and repeated calls with the same window and
\* site, with no write in between, return identical totals.
C14_ReadOnly == [](SameAgain) /\ [][ExposureReadOnly]_vars

\* exposure has answered with minutes in two categories from a database that
\* holds readings older than the window, and events.
C14_Witness ==
  /\ ret.op = "exposure" /\ ret.window = "30min" /\ ret.site = None
  /\ Retained # Filtered /\ events # {}
  /\ ret.out.good > 0 /\ ret.out.poor > 0

\* ------------------------------------------------------------------ reset claims

\* A step of POST /reset with the query parameter site: with a site, exactly
\* the readings and events of that site are gone and the others are as before,
\* and then exposure for the site answers zeros and the site's event list is
\* empty; without one, both tables are empty.
ResetFrame(site) ==
  (ret'.op = "reset" /\ reset(site)) =>
    IF site = None
    THEN readings' = {} /\ events' = {}
    ELSE /\ \A x \in readings \cup readings' :
              x \in readings' <=> (x \in readings /\ x.site # site[1])
         /\ \A e \in events \cup events' :
              e \in events' <=> (e \in events /\ e.site # site[1])
         /\ \A w \in Windows : AllZero(exposure_out(w, site)')
         /\ get_events_out(100, site)' = <<>>

\* C15: reset(site=S) deletes exactly the readings and the events of site S and
\* leaves those of every other site unchanged; reset() deletes all readings and
\* all events.  After reset(site=S), exposure for S returns all-zero totals and
\* the events list for S is empty.
C15_ResetFrame == [][\A site \in SiteInputs : ResetFrame(site)]_vars

\* After a reset of site Lab that deleted an event, the readings and events of
\* site Office are still stored.
C15_Witness ==
  /\ ret.op = "reset"
  /\ \E x \in readings : x.site = "Office"
  /\ \E e \in events : e.site = "Office"
  /\ \A x \in readings : x.site # "Lab"
  /\ \A e \in events : e.site # "Lab"
  /\ Cardinality(events) < seq

\* C16 (as claimed): the dashboard's Reset button clears only the selected
\* site: after it, exactly the readings and events of that site are gone and
\* those of every other site remain stored, as "Cleared {site}" reports.
C16_ClearsSelectedSite ==
  [][\A site \in DashSites :
       (ret'.op = "reset_clicked" /\ ret'.message = <<"Cleared", site>>) =>
         /\ readings' = {x \in readings : x.site # site}
         /\ events' = {e \in events : e.site # site}]_vars

\* ------------------------------------------------------------------ event claims

\* An event with an id that no event had before the step is unacknowledged.
CreatedUnacknowledged ==
  \A e \in events' : (\A o \in events : o.id # e.id) => e.acknowledged = 0

\* A step of ack_event(event_id): the readings are as before; the event with
\* that id is now acknowledged and is otherwise as before; every other event
\* is as before; nothing changes if the event was acknowledged already or if
\* no event has the id.
AckFrame(event_id) ==
  (ret'.op = "ack" /\ ret'.acknowledged = event_id) =>
    /\ readings' = readings /\ seq' = seq
    /\ Cardinality(events') = Cardinality(events)
    /\ \A e \in events :
         IF e.id = event_id THEN [e EXCEPT !.acknowledged = 1] \in events'
         ELSE e \in events'
    /\ (\A e \in events : e.id = event_id => e.acknowledged = 1) => events' = events

\* An acknowledged event is stored unchanged after the step, unless the step
\* is a reset that deleted it.
StaysAcknowledged ==
  \A e \in events :
    e.acknowledged = 1 =>
      \/ e \in events'
      \/ ret'.op = "reset" /\ \A o \in events' : o.id # e.id

\* C17: every alert event is created unacknowledged; ack_event(id) sets the flag
\* of the event with that id and changes no other event and no reading, is
\* idempotent, and changes nothing for an id no event has; an acknowledged
\* event stays acknowledged until a reset deletes it.
C17_Acknowledge ==
  [][/\ CreatedUnacknowledged
     /\ \A event_id \in AckIds : AckFrame(event_id)
     /\ StaysAcknowledged]_vars

\* An acknowledged alert is still acknowledged after a reading was ingested
\* again at its timestamp, beside an alert that is not acknowledged.
C17_Witness ==
  /\ ret.op = "ingest"
  /\ \E e \in events : e.acknowledged = 1 /\ e.ts = ret.inserted
  /\ \E e \in events : e.acknowledged = 0

\* The alert events of a stored reading: those with its timestamp and site.
AlertsOf(x) == {e \in events : e.type = "pm25_alert" /\ e.ts = x.ts /\ e.site = x.site}

\* C18 (as claimed): after any sequence of ingest, seed, ack and reset, every
\* stored alert event has a stored reading with its timestamp and site whose
\* category is Poor, Very Poor or Severe and agrees with the event's severity,
\* and every stored reading of such a category has exactly one alert event.
C18_EventsMatchReadings ==
  /\ \A e \in events :
       \E x \in readings :
         /\ x.ts = e.ts /\ x.site = e.site
         /\ x.pm25_category \in AlertCats
         /\ e.severity = (IF x.pm25_category = Some("Poor") THEN "warning" ELSE "critical")
  /\ \A x \in readings :
       x.pm25_category \in AlertCats => Cardinality(AlertsOf(x)) = 1

\* ------------------------------------------------------------------ site claims

\* The step is a write for site b: an ingest or a seed with that site, or a
\* reset of it.
WriteFor(b) ==
  \/ ret'.op = "ingest" /\ \E r \in IngestInputs :
                             /\ site_or_lab(r.site) = b
                             /\ ret'.inserted = utc_isoformat(r.ts)
                             /\ ingest(r)
  \/ ret'.op = "seed" /\ ret'.site = b
  \/ ret'.op = "reset" /\ reset(Some(b))

\* The stored readings of site a.
ReadingsOf(table, a) == {x \in table : x.site = a}

\* C19 (as claimed): sites are isolated: an ingest, seed or reset(site=B) for
\* site B leaves the stored readings of every other site A, and so the result
\* of exposure(window, site=A) for every window, unchanged.
C19_SitesIsolated ==
  [][\A a, b \in DashSites :
       (a # b /\ WriteFor(b)) =>
         /\ ReadingsOf(readings', a) = ReadingsOf(readings, a)
         /\ \A w \in Windows : exposure_out(w, Some(a))' = exposure_out(w, Some(a))]_vars

\* ------------------------------------------------------------------ conservation

\* The earliest timestamp of a non-empty set of readings.
Earliest(S) == CHOOSE t \in {x.ts : x \in S} : \A x \in S : t <= x.ts

\* The seconds exposure credits to category c, before the division by 60 and
\* the rounding.
Seconds(c) == sum_dt(RetainedSorted, c, Len(RetainedSorted))

\* C20: no time is counted twice or lost: every total is non-negative, and when
\* every retained reading carries one of the six categories the seconds
\* credited over the six categories, before rounding, sum to (latest retained
\* timestamp - earliest retained timestamp) + 60, which is at most the window
\* plus 60 seconds.
C20_Conservation ==
  ret.op = "exposure" =>
    /\ \A c \in Labels : TotalOf(ret.out, c) >= 0
    /\ (Filtered # {} /\ \A x \in Retained : x.pm25_category # None) =>
         LET total == SumOver([c \in Labels |-> Seconds(c)], Labels)
         IN  /\ \A c \in Labels : Seconds(c) >= 0
             /\ total = (Latest(Retained) - Earliest(Retained)) + 60
             /\ total <= Timedelta(ret.window) + 60

\* Three retained readings, all with a category, span exactly the one-hour
\* window: 3660 seconds are credited, 31 minutes to Good and 30 to Poor.
C20_Witness ==
  /\ ret.op = "exposure" /\ ret.window = "1h" /\ Filtered # {}
  /\ Cardinality(Retained) = 3
  /\ \A x \in Retained : x.pm25_category # None
  /\ Latest(Retained) - Earliest(Retained) = 3600
  /\ Seconds("Good") = 1860 /\ Seconds("Poor") = 1800
  /\ ret.out.good = 31 /\ ret.out.poor = 30

\* ------------------------------------------------------------------ window claims

\* The readings exposure(window, site) retains: of the stored readings that
\* pass the site filter, those no older than the window, measured back from the
\* latest of them.
ExposureRetains(window, site) ==
  LET rows == {x \in readings : (site # None /\ site # Some("")) => x.site = site[1]}
  IN  {x \in rows : x.ts >= Latest(rows) - Timedelta(window)}

\* C21 (as claimed): readings and exposure apply the same window: the readings
\* returned by readings(site, window), with a limit at least the number of
\* stored readings, are exactly the readings exposure(window, site) retains.
C21_SameWindow ==
  (ret.op = "readings" /\ ret.window # None /\ ret.limit >= Cardinality(readings)) =>
    {ret.out[i] : i \in 1..Len(ret.out)} = ExposureRetains(ret.window[1], ret.site)

====
